---- MODULE Spec2Model ----
(***************************************************************************)
(* Ordinal Social Topology Analyzer.                                       *)
(*                                                                         *)
(* State: the AppState of context/AppContext.tsx (participants, ballots),  *)
(* the current page, the AnalyticsResult the results page derives with     *)
(* useAnalytics, the CSV upload being parsed, and an array of scores with   *)
(* its inequality measures (Gini coefficient, Lorenz points).  The engine   *)
(* (lib/computations.ts) is a set of pure functions; each is an operator   *)
(* here, computed the way the code computes it.                            *)
(*                                                                         *)
(* A Participant is modelled by its id (a positive integer); the engine    *)
(* never reads the name.  Voter ids made up by parseCsv are negative.      *)
(* Numbers the code computes in floating point and that are not integers   *)
(* are kept as exact fractions [num, den] with den > 0.                    *)
(***************************************************************************)
EXTENDS Integers, Sequences, FiniteSets, TLC

VARIABLES participants, ballots, page, analytics, upload, distribution, stratification

vars == <<participants, ballots, page, analytics, upload, distribution, stratification>>

\* ---------------------------------------------------------------- bounds
MaxParticipants == 3

MaxIds == 4

MaxNames == 3

MaxRows == 3

MaxGroup == 5

MaxLen == 4

MaxValue == 3

MaxFactor == 3

MaxJsonParticipants == 4

MaxOmitted == 1

MaxTenths == 4

MaxLabel == 2

MaxMembers == 4

\* ---------------------------------------------------------------- helpers
Null == 0

Range(s) == { s[k] : k \in DOMAIN s }

RECURSIVE SumSeq(_)
SumSeq(s) == IF s = <<>> THEN 0 ELSE s[1] + SumSeq(Tail(s))

NoDup(s) == \A p, q \in DOMAIN s : p # q => s[p] # s[q]

\* Array.prototype.indexOf, 0-based, -1 when absent
IndexOf(s, x) ==
    IF \E k \in DOMAIN s : s[k] = x
    THEN (CHOOSE k \in DOMAIN s : s[k] = x /\ \A l \in 1..(k - 1) : s[l] # x) - 1
    ELSE -1

Frac(a, b) == [num |-> a, den |-> b]

FracEq(x, y) == x.num * y.den = y.num * x.den

\* ---------------------------------------------------------------- engine
\* faulty variant: the 0-based index is returned as the rank
getRankZeroBased(ballot, targetId) == IndexOf(ballot.ranking, targetId)

getRank(ballot, targetId) ==
    LET idx == IndexOf(ballot.ranking, targetId)
    IN  IF idx = -1 THEN -1 ELSE idx + 1

\* faulty variant: scores the last place 0, i.e. (n-1) - rank
bordaPointsLastZero(rank, n) == n - rank - 1

bordaPoints(rank, n) == n - rank

getIds(ps) == ps

\* faulty variant: the not-found sentinel -1 is compared like a rank
PairwiseCellNoSentinel(ballot, ids, i, j) ==
    IF i = j THEN 0
    ELSE IF getRank(ballot, ids[i]) < getRank(ballot, ids[j]) THEN 1 ELSE 0

\* one ballot's contribution to cell (i, j) of the pairwise matrix
PairwiseCell(ballot, ids, i, j) ==
    IF i = j THEN 0
    ELSE LET rankI == getRank(ballot, ids[i])
             rankJ == getRank(ballot, ids[j])
         IN  IF rankI > 0 /\ rankJ > 0 /\ rankI < rankJ THEN 1 ELSE 0

buildPairwiseMatrix(bs, ps) ==
    LET n == Len(ps)
        ids == getIds(ps)
    IN  [i \in 1..n |-> [j \in 1..n |->
            SumSeq([k \in 1..Len(bs) |-> PairwiseCell(bs[k], ids, i, j)])]]

\* one ballot's contribution to the score of participant id
BordaCell(ballot, id, n) ==
    IF id = ballot.voterId THEN 0
    ELSE LET rank == getRank(ballot, id)
         IN  IF rank > 0 THEN bordaPoints(rank, n) ELSE 0

computeBordaScores(bs, ps) ==
    LET n == Len(ps)
    IN  [id \in Range(ps) |->
            SumSeq([k \in 1..Len(bs) |-> BordaCell(bs[k], id, n)])]

\* faulty variant: a tie counts as a win
NotMajorityStrict(matrix, i, j, numBallots) == 2 * matrix[i][j] < numBallots

\* matrix[i][j] <= numBallots / 2, without the division
NotMajority(matrix, i, j, numBallots) == 2 * matrix[i][j] <= numBallots

\* faulty variant: one win is enough
beatsSome(matrix, n, i, numBallots) ==
    \E j \in 1..n : j # i /\ ~NotMajority(matrix, i, j, numBallots)

beatsAll(matrix, n, i, numBallots) ==
    \A j \in 1..n : j # i => ~NotMajority(matrix, i, j, numBallots)

detectCondorcetWinner(matrix, ps, numBallots) ==
    LET n == Len(ps)
    IN  IF \E i \in 1..n : beatsAll(matrix, n, i, numBallots)
        THEN ps[CHOOSE i \in 1..n : /\ beatsAll(matrix, n, i, numBallots)
                                    /\ \A h \in 1..(i - 1) :
                                          ~beatsAll(matrix, n, h, numBallots)]
        ELSE Null

\* the k-th (0-based) triple of the loop nest a, b, c over 1..n
TripleAt(k, n) == <<(k \div (n * n)) + 1, ((k \div n) % n) + 1, (k % n) + 1>>

\* faulty variant: a cycle is listed only from its first participant
IsCycleTripleFromFirst(matrix, t, numBallots) ==
    /\ t[2] # t[1]
    /\ ~NotMajority(matrix, t[1], t[2], numBallots)
    /\ t[3] # t[1] /\ t[3] # t[2]
    /\ ~NotMajority(matrix, t[2], t[3], numBallots)
    /\ ~NotMajority(matrix, t[3], t[1], numBallots)
    /\ t[1] < t[2] /\ t[1] < t[3]

IsCycleTriple(matrix, t, numBallots) ==
    /\ t[2] # t[1]
    /\ ~NotMajority(matrix, t[1], t[2], numBallots)
    /\ t[3] # t[1] /\ t[3] # t[2]
    /\ ~NotMajority(matrix, t[2], t[3], numBallots)
    /\ ~NotMajority(matrix, t[3], t[1], numBallots)

findCondorcetCycles(matrix, ps, numBallots) ==
    LET n == Len(ps)
        ids == getIds(ps)
        all == [k \in 1..(n * n * n) |-> TripleAt(k - 1, n)]
        IsCyc(t) == IsCycleTriple(matrix, t, numBallots)
        hit == SelectSeq(all, IsCyc)
    IN  [k \in 1..Len(hit) |-> <<ids[hit[k][1]], ids[hit[k][2]], ids[hit[k][3]]>>]

\* Math.max(0, Math.min(1, W)) on the fraction W
Clamp01(w) ==
    IF w.num >= w.den THEN Frac(1, 1)
    ELSE IF w.num <= 0 THEN Frac(0, 1)
    ELSE w

\* rankSums[j]: sum of the ranks participant j received
RankSum(bs, id) ==
    SumSeq([k \in 1..Len(bs) |->
        LET rank == getRank(bs[k], id) IN IF rank > 0 THEN rank ELSE 0])

\* faulty variant: the mean rank sum is taken as m n / 2
SqDev4MeanOff(r, m, n) == (2 * r - m * n) * (2 * r - m * n)

\* 4 * (r - meanRankSum)^2 with meanRankSum = m (n + 1) / 2
SqDev4(r, m, n) == (2 * r - m * (n + 1)) * (2 * r - m * (n + 1))

\* 12 * S, with S the sum of the squared deviations
KendallNumerator(bs, ps) ==
    LET n == Len(ps)
        m == Len(bs)
        ids == getIds(ps)
    IN  3 * SumSeq([j \in 1..n |-> SqDev4(RankSum(bs, ids[j]), m, n)])

\* m^2 * (n^3 - n)
KendallDenominator(bs, ps) ==
    LET n == Len(ps)
        m == Len(bs)
    IN  m * m * (n * n * n - n)

computeKendallW(bs, ps) ==
    LET n == Len(ps)
        m == Len(bs)
    IN  IF m < 2 \/ n < 2 THEN Frac(0, 1)
        ELSE Clamp01(Frac(KendallNumerator(bs, ps), KendallDenominator(bs, ps)))

IsCyclicTriad(matrix, a, b, c, numBallots) ==
    LET aWinsB == ~NotMajority(matrix, a, b, numBallots)
        bWinsC == ~NotMajority(matrix, b, c, numBallots)
        cWinsA == ~NotMajority(matrix, c, a, numBallots)
        bWinsA == ~NotMajority(matrix, b, a, numBallots)
        cWinsB == ~NotMajority(matrix, c, b, numBallots)
        aWinsC == ~NotMajority(matrix, a, c, numBallots)
    IN  (aWinsB /\ bWinsC /\ cWinsA) \/ (bWinsA /\ aWinsC /\ cWinsB)

computeCycleDensity(matrix, numBallots, n) ==
    LET totalTriads == (n * (n - 1) * (n - 2)) \div 6
        cycleCount == Cardinality({ t \in (1..n) \X (1..n) \X (1..n) :
                          /\ t[1] < t[2] /\ t[2] < t[3]
                          /\ IsCyclicTriad(matrix, t[1], t[2], t[3], numBallots) })
    IN  IF totalTriads = 0 THEN Frac(0, 1) ELSE Frac(cycleCount, totalTriads)

\* insertion of x into an ascending array
RECURSIVE InsertAsc(_, _)
InsertAsc(x, s) ==
    IF s = <<>> THEN <<x>>
    ELSE IF x <= Head(s) THEN <<x>> \o s
    ELSE <<Head(s)>> \o InsertAsc(x, Tail(s))

RECURSIVE SortAsc(_)
SortAsc(s) == IF s = <<>> THEN <<>> ELSE InsertAsc(Head(s), SortAsc(Tail(s)))

\* faulty variant: the values are taken in the order given
sortedAsGiven(values) == values

\* [...values].sort((a, b) => a - b)
sorted(values) == SortAsc(values)

\* Math.ceil((n - 1) / 3)
topThird(n) == (n + 1) \div 3

\* ballots.find(b => b.voterId === id): the position of the first such ballot, 0 if none
FindBallot(bs, id) ==
    IF \E k \in DOMAIN bs : bs[k].voterId = id
    THEN CHOOSE k \in DOMAIN bs : bs[k].voterId = id /\ \A l \in 1..(k - 1) : bs[l].voterId # id
    ELSE 0

\* participant i has a ballot that places participant j in its top third
InTopThird(bs, ps, i, j) ==
    LET ids == getIds(ps)
        at == FindBallot(bs, ids[i])
    IN  /\ at # 0
        /\ LET rank == getRank(bs[at], ids[j])
           IN  rank > 0 /\ rank <= topThird(Len(ps))

\* adj of computeKCoreDecomposition: linked when either places the other in its top third
KCoreAdj(bs, ps) ==
    [i \in 1..Len(ps) |->
        { j \in 1..Len(ps) : j # i /\ (InTopThird(bs, ps, i, j) \/ InTopThird(bs, ps, j, i)) }]

\* faulty variant: a node removed in round k is given k
PeeledCoreAtK(k) == k

\* core[i] = k - 1 for a node removed in round k
PeeledCore(k) == k - 1

\* one for-loop over the nodes i..n in round k; st = [degree, core, removed, changed]
RECURSIVE PeelPass(_, _, _, _)
PeelPass(st, adj, k, i) ==
    IF i > Len(st.core) THEN st
    ELSE IF ~st.removed[i] /\ st.degree[i] < k
    THEN PeelPass([degree |-> [j \in DOMAIN st.degree |->
                                  IF j \in adj[i] /\ j # i /\ ~st.removed[j]
                                  THEN st.degree[j] - 1 ELSE st.degree[j]],
                   core |-> [st.core EXCEPT ![i] = PeeledCore(k)],
                   removed |-> [st.removed EXCEPT ![i] = TRUE],
                   changed |-> TRUE], adj, k, i + 1)
    ELSE PeelPass(st, adj, k, i + 1)

\* while (changed) of round k
RECURSIVE PeelRound(_, _, _)
PeelRound(st, adj, k) ==
    LET after == PeelPass([st EXCEPT !.changed = FALSE], adj, k, 1)
    IN  IF after.changed THEN PeelRound(after, adj, k) ELSE after

\* for (k = 1; k < n; k++), left when every node is removed
RECURSIVE PeelFrom(_, _, _)
PeelFrom(st, adj, k) ==
    IF k >= Len(st.core) THEN st
    ELSE LET after == PeelRound(st, adj, k)
         IN  IF \A i \in DOMAIN after.removed : after.removed[i] THEN after
             ELSE PeelFrom(after, adj, k + 1)

computeKCoreDecomposition(bs, ps) ==
    LET n == Len(ps)
        ids == getIds(ps)
        adj == KCoreAdj(bs, ps)
        start == [degree |-> [i \in 1..n |-> Cardinality(adj[i])],
                  core |-> [i \in 1..n |-> 0],
                  removed |-> [i \in 1..n |-> FALSE],
                  changed |-> TRUE]
        done == PeelFrom(start, adj, 1)
    IN  [id \in Range(ids) |->
            LET i == IndexOf(ids, id) + 1
            IN  IF done.removed[i] THEN done.core[i] ELSE n - 1]

\* the dyads (i, j), i < j, in the order of the two nested loops
Dyads(n) ==
    LET all == [k \in 1..(n * n) |-> <<((k - 1) \div n) + 1, ((k - 1) % n) + 1>>]
        Upper(d) == d[1] < d[2]
    IN  SelectSeq(all, Upper)

\* both have a ballot and each places the other in its top third
IsMutualPair(bs, ps, d) == InTopThird(bs, ps, d[1], d[2]) /\ InTopThird(bs, ps, d[2], d[1])

computeReciprocityIndex(bs, ps) ==
    LET n == Len(ps)
        ids == getIds(ps)
        Mutual(d) == IsMutualPair(bs, ps, d)
        hit == SelectSeq(Dyads(n), Mutual)
        mutualPairs == [k \in 1..Len(hit) |-> <<ids[hit[k][1]], ids[hit[k][2]]>>]
        totalDyads == (n * (n - 1)) \div 2
    IN  [index |-> IF totalDyads > 0 THEN Frac(Len(mutualPairs), totalDyads) ELSE Frac(0, 1),
         pairs |-> mutualPairs]

\* the test of detectCoalitions: both have a ballot and
\* getRank(bi, ids[j]) <= topThird && getRank(bj, ids[i]) <= topThird
IsCoalitionPair(bs, ps, i, j) ==
    LET ids == getIds(ps)
        bi == FindBallot(bs, ids[i])
        bj == FindBallot(bs, ids[j])
    IN  /\ bi # 0
        /\ bj # 0
        /\ getRank(bs[bi], ids[j]) <= topThird(Len(ps))
        /\ getRank(bs[bj], ids[i]) <= topThird(Len(ps))

\* reciprocalPairs of detectCoalitions, by position; a Set lists its members in the
\* order they were added, which the two nested loops make the ascending one
CoalitionNeighbors(bs, ps) ==
    [i \in 1..Len(ps) |->
        { j \in 1..Len(ps) :
            j # i /\ IsCoalitionPair(bs, ps, IF i < j THEN i ELSE j, IF i < j THEN j ELSE i) }]

\* the loop over the neighbors j.. of one start; st = [coalition, visited]
RECURSIVE GrowCoalition(_, _, _, _)
GrowCoalition(st, nb, start, j) ==
    IF j > Len(nb) THEN st
    ELSE IF /\ j \in nb[start]
            /\ j \notin st.visited
            /\ \A m \in Range(st.coalition) : m \in nb[j]
    THEN GrowCoalition([coalition |-> Append(st.coalition, j),
                        visited |-> st.visited \cup {j}], nb, start, j + 1)
    ELSE GrowCoalition(st, nb, start, j + 1)

\* the loop over the starts; st = [coalitions, visited]
RECURSIVE CoalitionsFrom(_, _, _)
CoalitionsFrom(st, nb, start) ==
    IF start > Len(nb) THEN st.coalitions
    ELSE IF start \in st.visited \/ nb[start] = {}
    THEN CoalitionsFrom(st, nb, start + 1)
    ELSE LET grown == GrowCoalition([coalition |-> <<start>>,
                                     visited |-> st.visited \cup {start}], nb, start, 1)
         IN  CoalitionsFrom(
                 [coalitions |-> IF Len(grown.coalition) >= 2
                                 THEN Append(st.coalitions, grown.coalition)
                                 ELSE st.coalitions,
                  visited |-> grown.visited], nb, start + 1)

detectCoalitions(bs, ps) ==
    LET ids == getIds(ps)
        found == CoalitionsFrom([coalitions |-> <<>>, visited |-> {}],
                                CoalitionNeighbors(bs, ps), 1)
    IN  [k \in DOMAIN found |-> [m \in DOMAIN found[k] |-> ids[found[k][m]]]]

\* faulty variant: the sum is divided by n only
GiniDenominatorUnnormalised(n, totalSum) == n

\* n * totalSum
GiniDenominator(n, totalSum) == n * totalSum

computeGini(values) ==
    IF Len(values) = 0 THEN Frac(0, 1)
    ELSE LET srt == sorted(values)
             n == Len(srt)
             sum == SumSeq([i \in 1..n |-> (2 * i - n - 1) * srt[i]])
             totalSum == SumSeq(srt)
         IN  IF totalSum = 0 THEN Frac(0, 1) ELSE Frac(sum, GiniDenominator(n, totalSum))

computeLorenzPoints(values) ==
    LET srt == sorted(values)
        n == Len(srt)
        total == SumSeq(srt)
    IN  IF total = 0 THEN [i \in 1..n |-> <<Frac(i - 1, n), Frac(i - 1, n)>>]
        ELSE <<<<Frac(0, 1), Frac(0, 1)>>>> \o
             [i \in 1..n |-> <<Frac(i, n), Frac(SumSeq(SubSeq(srt, 1, i)), total)>>]

\* the inequality measures useAnalytics derives from an array of scores
Measure(values) ==
    [values |-> values,
     giniCoefficient |-> computeGini(values),
     lorenzPoints |-> computeLorenzPoints(values)]

NoAnalytics == [present |-> FALSE]

\* ---------------------------------------------------------------- divisions
\* Each metric function's divisions, as the set of the denominators it divides by
\* on the given input; a division the code guards is listed only when the guard
\* lets it happen.
When(guard, den) == IF guard THEN {den} ELSE {}

SetMax(S) == CHOOSE x \in S : \A y \in S : y <= x

\* a || 1
OrOne(a) == IF a = 0 THEN 1 ELSE a

\* received[id]: the ranks participant id was given, ballot by ballot
ReceivedRanksOf(bs, id) ==
    LET rankIn == [k \in 1..Len(bs) |->
                      IF bs[k].voterId = id THEN 0 ELSE getRank(bs[k], id)]
        Given(r) == r > 0
    IN  SelectSeq(rankIn, Given)

computeReceivedRanks(bs, ps) == [id \in Range(getIds(ps)) |-> ReceivedRanksOf(bs, id)]

\* Object.values(bordaScores), in the order of the participants
BordaValues(bs, ps) ==
    LET scores == computeBordaScores(bs, ps) IN [k \in 1..Len(ps) |-> scores[ps[k]]]

KendallDivisors(bs, ps) ==
    When(~(Len(bs) < 2 \/ Len(ps) < 2), KendallDenominator(bs, ps))

LorenzDivisors(values) ==
    When(values # <<>>, Len(values)) \cup When(SumSeq(values) # 0, SumSeq(values))

GiniDivisors(values) ==
    When(Len(values) # 0 /\ SumSeq(values) # 0, GiniDenominator(Len(values), SumSeq(values)))

buildWeightMatrix(bs, ps) ==
    LET n == Len(ps)
        ids == getIds(ps)
        Cell(b, i, j) ==
            IF b.voterId # ids[i] \/ ids[j] = b.voterId THEN 0
            ELSE LET rank == getRank(b, ids[j]) IN IF rank > 0 THEN n - rank ELSE 0
    IN  [i \in 1..n |-> [j \in 1..n |-> SumSeq([k \in 1..Len(bs) |-> Cell(bs[k], i, j)])]]

\* Math.max(...Object.values(result), 1)
InDegreeMax(weightMatrix, ps) ==
    LET n == Len(ps)
    IN  SetMax({ SumSeq([i \in 1..n |-> weightMatrix[i][j]]) : j \in 1..n } \cup {1})

InDegreeDivisors(weightMatrix, ps) == When(Len(ps) > 0, InDegreeMax(weightMatrix, ps))

ReciprocityDivisors(ps) ==
    LET totalDyads == (Len(ps) * (Len(ps) - 1)) \div 2
    IN  When(totalDyads > 0, totalDyads)

CycleDensityDivisors(n) ==
    LET totalTriads == (n * (n - 1) * (n - 2)) \div 6
    IN  When(totalTriads # 0, totalTriads)

\* adj of the majority graph: i -> j when matrix[i][j] > numBallots / 2
MajorityAdj(matrix, n, numBallots) ==
    [i \in 1..n |-> { j \in 1..n : j # i /\ ~NotMajority(matrix, i, j, numBallots) }]

\* the breadth-first search of one source: dist, -1 for a node not reached
RECURSIVE Bfs(_, _, _, _)
Bfs(adj, dist, frontier, d) ==
    IF frontier = {} THEN dist
    ELSE LET next == { w \in UNION { adj[v] : v \in frontier } : dist[w] < 0 }
         IN  Bfs(adj, [w \in DOMAIN dist |-> IF w \in next THEN d + 1 ELSE dist[w]], next, d + 1)

BfsDist(adj, s) == Bfs(adj, [w \in DOMAIN adj |-> IF w = s THEN 0 ELSE -1], {s}, 0)

\* sigma[w]: the number of shortest paths from s to w
RECURSIVE Sigma(_, _, _, _)
Sigma(adj, dist, s, w) ==
    IF w = s THEN 1
    ELSE SumSeq([v \in DOMAIN adj |->
             IF w \in adj[v] /\ dist[v] >= 0 /\ dist[w] = dist[v] + 1
             THEN Sigma(adj, dist, s, v) ELSE 0])

\* sigma[v] / sigma[w] for every w of the stack with a predecessor v; betweenness / norm
BetweennessDivisors(matrix, ps, numBallots) ==
    LET n == Len(ps)
        adj == MajorityAdj(matrix, n, numBallots)
        norm == (n - 1) * (n - 2)
    IN  UNION { { Sigma(adj, BfsDist(adj, s), s, w) :
                     w \in { x \in 1..n : x # s /\ BfsDist(adj, s)[x] > 0 } } : s \in 1..n }
        \cup When(norm > 0, norm)

\* the iteration cap of detectCommunities
MaxIterations == 20

\* 2 * numBallots || 1, the denominator of every W[i][j]
CommunityWeightDenominator(numBallots) == OrOne(2 * numBallots)

\* W[i][j] * (2 * numBallots || 1)
CommunityWeight(matrix, i, j) == IF i = j THEN 0 ELSE matrix[i][j] + matrix[j][i]

\* gainToTarget - gainFromCurrent of node i, times the common denominator
CommunityGain(matrix, community, i, targetComm) ==
    LET n == Len(community)
        To(j) == IF j # i /\ community[j] = targetComm THEN CommunityWeight(matrix, i, j) ELSE 0
        From(j) == IF j # i /\ community[j] = community[i]
                   THEN CommunityWeight(matrix, i, j) ELSE 0
    IN  SumSeq([j \in 1..n |-> To(j)]) - SumSeq([j \in 1..n |-> From(j)])

\* the neighboring communities of node i in the order they enter the Set (a
\* community met again has the same gain, which is not greater); best = [gain, comm]
RECURSIVE BestCommunity(_, _, _, _, _, _)
BestCommunity(matrix, community, numBallots, i, j, best) ==
    IF j > Len(community) THEN best.comm
    ELSE IF /\ j # i
            /\ ~NotMajority(matrix, i, j, numBallots)
            /\ community[j] # community[i]
            /\ CommunityGain(matrix, community, i, community[j]) > best.gain
    THEN BestCommunity(matrix, community, numBallots, i, j + 1,
             [gain |-> CommunityGain(matrix, community, i, community[j]),
              comm |-> community[j]])
    ELSE BestCommunity(matrix, community, numBallots, i, j + 1, best)

\* one pass over the nodes i..n, each moved in place
RECURSIVE CommunityPass(_, _, _, _)
CommunityPass(matrix, community, numBallots, i) ==
    IF i > Len(community) THEN community
    ELSE CommunityPass(matrix,
             [community EXCEPT ![i] =
                 BestCommunity(matrix, community, numBallots, i, 1,
                               [gain |-> 0, comm |-> community[i]])],
             numBallots, i + 1)

\* while (improved && iterations < 20): the assignment reached and the passes made
RECURSIVE CommunityPasses(_, _, _, _)
CommunityPasses(matrix, community, numBallots, iterations) ==
    IF iterations >= MaxIterations
    THEN [community |-> community, iterations |-> iterations]
    ELSE LET after == CommunityPass(matrix, community, numBallots, 1)
         IN  IF after = community
             THEN [community |-> community, iterations |-> iterations + 1]
             ELSE CommunityPasses(matrix, after, numBallots, iterations + 1)

\* the passes detectCommunities makes before it leaves the while loop
CommunityIterations(matrix, ps, numBallots) ==
    CommunityPasses(matrix, [i \in 1..Len(ps) |-> i - 1], numBallots, 0).iterations

\* faulty variant: the community numbers are returned as they are
CommunityLabelRaw(community, i) == community[i]

\* commMap.get(community[i]): the number of communities first seen before the
\* one of node i
CommunityLabel(community, i) ==
    LET IsFirst(h) == \A g \in 1..(h - 1) : community[g] # community[h]
        First == CHOOSE h \in 1..i : community[h] = community[i] /\ IsFirst(h)
    IN  Cardinality({ f \in 1..(First - 1) : IsFirst(f) })

\* communities relabelled 0..k in the order of their first member
detectCommunities(matrix, ps, numBallots) ==
    LET n == Len(ps)
        ids == getIds(ps)
        community == CommunityPasses(matrix, [i \in 1..n |-> i - 1], numBallots, 0).community
    IN  [id \in Range(ids) |-> CommunityLabel(community, IndexOf(ids, id) + 1)]

CommunityDivisors(ps, numBallots) == When(Len(ps) >= 2, CommunityWeightDenominator(numBallots))

\* Math.max(1, Math.ceil(scores.length * 0.1))
MarginalizedCutoff(n) == SetMax({1, (n + 9) \div 10})

\* scores.sort((a, b) => a[1] - b[1]).slice(0, cutoff): the sort is stable
LowBorda(bs, ps) ==
    LET values == BordaValues(bs, ps)
        n == Len(ps)
        Before(h, i) == values[h] < values[i] \/ (values[h] = values[i] /\ h < i)
    IN  { ps[i] : i \in { x \in 1..n :
                     Cardinality({ h \in 1..n : Before(h, x) }) < MarginalizedCutoff(n) } }

\* mean and variance of the received ranks: divisions by ranks.length
MarginalizedDivisors(bs, ps) ==
    UNION { When(Len(ReceivedRanksOf(bs, id)) >= 2, Len(ReceivedRanksOf(bs, id))) :
               id \in LowBorda(bs, ps) }

PolarizationDivisors(bs, ps) ==
    UNION { When(~(Len(ReceivedRanksOf(bs, id)) < 2), Len(ReceivedRanksOf(bs, id))) :
               id \in Range(getIds(ps)) }

\* count of computeSpearmanConformity: the ranked ids that have a group rank
SpearmanCount(ballot, ps) ==
    Cardinality({ k \in DOMAIN ballot.ranking : ballot.ranking[k] \in Range(getIds(ps)) })

\* count * (count * count - 1)
SpearmanDivisors(bs, ps) ==
    UNION { LET count == SpearmanCount(bs[k], ps)
            IN  When(~(Len(bs[k].ranking) < 2) /\ count > 1, count * (count * count - 1)) :
               k \in DOMAIN bs }

\* the iterations of the power iteration
EigenIterations == 100

\* Math.max(...pairwiseMatrix.flat(), 1)
EigenMaxVal(matrix, n) == SetMax({ matrix[i][j] : i \in 1..n, j \in 1..n } \cup {1})

\* the entries of next that are positive, given the positive entries of ev
EigenSupport(matrix, n, support) ==
    { i \in 1..n : \E j \in support : matrix[j][i] > 0 }

\* norm || 1 of every iteration; norm is 0 exactly when next has no positive
\* entry, and a positive norm is stood for by the number of positive entries.
\* Once the positive entries stay the same the later iterations repeat.
RECURSIVE EigenNorms(_, _, _, _)
EigenNorms(matrix, n, support, iter) ==
    IF iter >= EigenIterations THEN {}
    ELSE LET next == EigenSupport(matrix, n, support)
         IN  {OrOne(Cardinality(next))}
             \cup (IF next = support THEN {} ELSE EigenNorms(matrix, n, next, iter + 1))

EigenvectorDivisors(matrix, ps) ==
    LET n == Len(ps)
    IN  {n} \cup {EigenMaxVal(matrix, n)} \cup EigenNorms(matrix, n, 1..n, 0)

\* computeEntropy: v / total
EntropyDivisors(values) == When(SumSeq(values) # 0, SumSeq(values))

\* the histogram of computeIndividualEntropy: ranks 1..n-1 counted in n cells
RankHistogram(ranks, n) ==
    [c \in 1..n |-> Cardinality({ k \in DOMAIN ranks : ranks[k] >= 1 /\ ranks[k] < n /\ ranks[k] = c })]

IndividualEntropyDivisors(bs, ps) ==
    UNION { EntropyDivisors(RankHistogram(ReceivedRanksOf(bs, id), Len(ps))) :
               id \in Range(getIds(ps)) }

\* Math.max(2, Math.min(n - 1, 5))
MutualInformationBins(n) == SetMax({2, IF n - 1 < 5 THEN n - 1 ELSE 5})

\* rankMat[vi]: 0 for the voter, getRank for everyone else
RankRow(ballot, ps) ==
    [j \in 1..Len(ps) |-> IF ps[j] = ballot.voterId THEN 0 ELSE getRank(ballot, ps[j])]

\* Math.min(bins - 1, Math.floor((r - 1) * bins / (n - 1))), 0 for r = 0
RankBin(r, bins, n) ==
    IF r = 0 THEN 0
    ELSE LET cell == ((r - 1) * bins) \div (n - 1)
         IN  IF cell < bins - 1 THEN cell ELSE bins - 1

\* the divisions for one pair of ballots: by n - 1 when binning, by valid, and by
\* pX * pY (here countA * countB, its value times valid * valid) under pX > 0 && pY > 0;
\* a negative bin makes its count NaN, which fails that test
MutualInformationPairDivisors(ballotA, ballotB, ps) ==
    LET n == Len(ps)
        bins == MutualInformationBins(n)
        rowA == RankRow(ballotA, ps)
        rowB == RankRow(ballotB, ps)
        binA == [j \in 1..n |-> RankBin(rowA[j], bins, n)]
        binB == [j \in 1..n |-> RankBin(rowB[j], bins, n)]
        counted == { j \in 1..n : rowA[j] # 0 /\ rowB[j] # 0 }
        valid == Cardinality(counted)
        countA(c) == Cardinality({ j \in counted : binA[j] = c })
        countB(c) == Cardinality({ j \in counted : binB[j] = c })
    IN  When(\E j \in 1..n : rowA[j] # 0 \/ rowB[j] # 0, n - 1)
        \cup When(valid # 0, valid)
        \cup UNION { When(binA[j] >= 0 /\ binB[j] >= 0 /\ countA(binA[j]) > 0 /\ countB(binB[j]) > 0,
                          countA(binA[j]) * countB(binB[j])) : j \in counted }

MutualInformationDivisors(bs, ps) ==
    UNION { MutualInformationPairDivisors(bs[pr[1]], bs[pr[2]], ps) :
               pr \in { x \in (DOMAIN bs) \X (DOMAIN bs) : x[1] < x[2] } }

\* faulty variant: the average is taken without the count > 0 test
ImbalanceAveragedAlways(count) == TRUE

\* count > 0 ? totalImbalance / count : 0
ImbalanceAveraged(count) == count > 0

\* count of computeReciprocityImbalance for the voter at position v
ImbalanceCount(bs, ps, v) ==
    LET at == FindBallot(bs, ps[v])
        Paired(o) == /\ o # v
                     /\ at # 0
                     /\ FindBallot(bs, ps[o]) # 0
                     /\ getRank(bs[at], ps[o]) > 0
                     /\ getRank(bs[FindBallot(bs, ps[o])], ps[v]) > 0
    IN  Cardinality({ o \in 1..Len(ps) : Paired(o) })

ReciprocityImbalanceDivisors(bs, ps) ==
    UNION { When(ImbalanceAveraged(ImbalanceCount(bs, ps, v)), ImbalanceCount(bs, ps, v)) :
               v \in 1..Len(ps) }

\* the members of each community with at least 2 members
CommunityGroups(communities) ==
    { g \in { { id \in DOMAIN communities : communities[id] = c } :
                 c \in { communities[id] : id \in DOMAIN communities } } :
         ~(Cardinality(g) < 2) }

\* the ordered pairs of members whose rank enters totalRank
CohesionPairs(bs, members) ==
    { pr \in members \X members :
         /\ pr[1] # pr[2]
         /\ FindBallot(bs, pr[1]) # 0
         /\ getRank(bs[FindBallot(bs, pr[1])], pr[2]) > 0 }

\* (rank - 1) / (n - 1) for every counted pair; totalRank / count
SubgroupCohesionDivisors(communities, bs, ps) ==
    UNION { LET count == Cardinality(CohesionPairs(bs, g))
            IN  When(count > 0, Len(ps) - 1) \cup When(count > 0, count) :
               g \in CommunityGroups(communities) }

\* reachable / maxReachable for every skipped node; totalFragility / n
StructuralFragilityDivisors(ps) ==
    LET n == Len(ps)
    IN  When(~(n < 3) /\ n - 1 > 0, n - 1) \cup When(~(n < 3) /\ n > 0, n)

FracAdd(x, y) == Frac(x.num * y.den + y.num * x.den, x.den * y.den)

FracMul(x, y) == Frac(x.num * y.num, x.den * y.den)

RECURSIVE FracSum(_)
FracSum(s) == IF s = <<>> THEN Frac(0, 1) ELSE FracAdd(s[1], FracSum(Tail(s)))

\* delta[v] of the source s: the sum over the w that v precedes of
\* sigma[v] / sigma[w] * (1 + delta[w])
RECURSIVE Delta(_, _, _, _)
Delta(adj, dist, s, v) ==
    FracSum([w \in DOMAIN adj |->
        IF w \in adj[v] /\ dist[w] = dist[v] + 1
        THEN FracMul(Frac(Sigma(adj, dist, s, v), Sigma(adj, dist, s, w)),
                     FracAdd(Frac(1, 1), Delta(adj, dist, s, w)))
        ELSE Frac(0, 1)])

computeBetweennessCentrality(matrix, ps, numBallots) ==
    LET n == Len(ps)
        adj == MajorityAdj(matrix, n, numBallots)
        norm == (n - 1) * (n - 2)
        Between(w) == FracSum([s \in 1..n |->
                          IF s # w /\ BfsDist(adj, s)[w] >= 0
                          THEN Delta(adj, BfsDist(adj, s), s, w) ELSE Frac(0, 1)])
    IN  [i \in 1..n |-> IF norm > 0 THEN FracMul(Between(i), Frac(1, norm)) ELSE Frac(0, 1)]

\* inDeg / max of computeInDegreeCentrality, by position
computeInDegreeCentrality(weightMatrix, ps) ==
    LET n == Len(ps)
    IN  [j \in 1..n |-> Frac(SumSeq([i \in 1..n |-> weightMatrix[i][j]]),
                             InDegreeMax(weightMatrix, ps))]

\* std || 1 of zScore: std is 0 exactly when all values are equal, and a
\* positive std is stood for by 1
StdOrOne(values) ==
    OrOne(IF \A p, q \in DOMAIN values : FracEq(values[p], values[q]) THEN 0 ELSE 1)

\* zScore: the mean divides by vals.length, the score by std || 1
ZScoreDivisors(values) == {Len(values), StdOrOne(values)}

LeadershipDivisors(bs, ps, matrix, numBallots) ==
    ZScoreDivisors([k \in 1..Len(ps) |-> Frac(BordaValues(bs, ps)[k], 1)])
    \cup ZScoreDivisors(computeBetweennessCentrality(matrix, ps, numBallots))
    \cup ZScoreDivisors(computeInDegreeCentrality(buildWeightMatrix(bs, ps), ps))

\* every denominator of the metric functions useAnalytics composes
Divisors(ps, bs) ==
    LET n == Len(ps)
        m == Len(bs)
        matrix == buildPairwiseMatrix(bs, ps)
        values == BordaValues(bs, ps)
    IN  KendallDivisors(bs, ps)
        \cup LorenzDivisors(values)
        \cup GiniDivisors(values)
        \cup InDegreeDivisors(buildWeightMatrix(bs, ps), ps)
        \cup ReciprocityDivisors(ps)
        \cup CycleDensityDivisors(n)
        \cup BetweennessDivisors(matrix, ps, m)
        \cup CommunityDivisors(ps, m)
        \cup MarginalizedDivisors(bs, ps)
        \cup PolarizationDivisors(bs, ps)
        \cup SpearmanDivisors(bs, ps)
        \cup EigenvectorDivisors(matrix, ps)
        \cup EntropyDivisors(values)
        \cup IndividualEntropyDivisors(bs, ps)
        \cup MutualInformationDivisors(bs, ps)
        \cup ReciprocityImbalanceDivisors(bs, ps)
        \cup LeadershipDivisors(bs, ps, matrix, m)
        \cup SubgroupCohesionDivisors(detectCommunities(matrix, ps, m), bs, ps)
        \cup StructuralFragilityDivisors(ps)

\* ---------------------------------------------------------------- stratification
\* faulty variant: the 'Fragmented' rule is tried before 'Tiered Clusters'
determineStratificationLabelFragmentedFirst(cycleDensity, gini, communities) ==
    LET numCommunities == Cardinality({ communities[x] : x \in DOMAIN communities })
        participantCount == Cardinality(DOMAIN communities)
    IN  IF cycleDensity.num * 10 < cycleDensity.den /\ gini.num * 10 > 3 * gini.den
        THEN "Linear Hierarchy"
        ELSE IF \/ cycleDensity.num * 10 > 3 * cycleDensity.den
                \/ numCommunities * 2 > participantCount
        THEN "Fragmented"
        ELSE IF numCommunities > 1 /\ numCommunities * 2 <= participantCount
        THEN "Tiered Clusters"
        ELSE "Mixed Structure"

\* cycleDensity and gini are fractions with a denominator above 0; x < 0.1 is
\* 10 * num < den, x > 0.3 is 10 * num > 3 * den, c <= count / 2 is 2 * c <= count
determineStratificationLabel(cycleDensity, gini, communities) ==
    LET numCommunities == Cardinality({ communities[x] : x \in DOMAIN communities })
        participantCount == Cardinality(DOMAIN communities)
    IN  IF cycleDensity.num * 10 < cycleDensity.den /\ gini.num * 10 > 3 * gini.den
        THEN "Linear Hierarchy"
        ELSE IF numCommunities > 1 /\ numCommunities * 2 <= participantCount
        THEN "Tiered Clusters"
        ELSE IF \/ cycleDensity.num * 10 > 3 * cycleDensity.den
                \/ numCommunities * 2 > participantCount
        THEN "Fragmented"
        ELSE "Mixed Structure"

\* the arguments of one call and the label it returns
Stratify(cycleDensity, gini, communities) ==
    [cycleDensity |-> cycleDensity, gini |-> gini, communities |-> communities,
     stratificationLabel |-> determineStratificationLabel(cycleDensity, gini, communities)]

\* ---------------------------------------------------------------- mutual information
\* the targets that pass 'if (rankMat[a][j] === 0 || rankMat[b][j] === 0) continue'
MutualInformationCounted(ballotA, ballotB, ps) ==
    { j \in 1..Len(ps) : RankRow(ballotA, ps)[j] # 0 /\ RankRow(ballotB, ps)[j] # 0 }

\* valid, jointCount, countA and countB of one pair of ballots over the counted
\* targets: the numbers MI[a][b] is computed from.  A count at a negative bin
\* is NaN, written -1.
MutualInformationHistograms(ballotA, ballotB, ps, counted) ==
    LET n == Len(ps)
        bins == MutualInformationBins(n)
        binA == [j \in 1..n |-> RankBin(RankRow(ballotA, ps)[j], bins, n)]
        binB == [j \in 1..n |-> RankBin(RankRow(ballotB, ps)[j], bins, n)]
        Count(bin, c) == IF c < 0 THEN 0 - 1 ELSE Cardinality({ j \in counted : bin[j] = c })
    IN  [valid |-> Cardinality(counted),
         jointCount |-> [key \in { <<binA[j], binB[j]>> : j \in counted } |->
                            Cardinality({ j \in counted : <<binA[j], binB[j]>> = key })],
         countA |-> [c \in (0..(bins - 1)) \cup { binA[j] : j \in counted } |-> Count(binA, c)],
         countB |-> [c \in (0..(bins - 1)) \cup { binB[j] : j \in counted } |-> Count(binB, c)]]

\* MI[a][b] = MI[b][a], stood for by the histograms of the pair (the ballot of
\* the lower index first); the diagonal is log2(bins)
computeMutualInformationMatrix(bs, ps) ==
    LET m == Len(bs)
        Lo(a, b) == IF a < b THEN a ELSE b
        Hi(a, b) == IF a < b THEN b ELSE a
    IN  [a \in 1..m |-> [b \in 1..m |->
            IF a = b THEN [bins |-> MutualInformationBins(Len(ps))]
            ELSE MutualInformationHistograms(bs[Lo(a, b)], bs[Hi(a, b)], ps,
                     MutualInformationCounted(bs[Lo(a, b)], bs[Hi(a, b)], ps))]]

\* ---------------------------------------------------------------- imbalance
\* the others whose rank difference enters totalImbalance of the voter at
\* position v: both ballots exist and each ranks the other
ImbalancePaired(bs, ps, v) ==
    { o \in 1..Len(ps) :
         /\ o # v
         /\ FindBallot(bs, ps[v]) # 0
         /\ FindBallot(bs, ps[o]) # 0
         /\ getRank(bs[FindBallot(bs, ps[v])], ps[o]) > 0
         /\ getRank(bs[FindBallot(bs, ps[o])], ps[v]) > 0 }

\* rankGiven - rankReceived
ImbalanceOf(bs, ps, v, o) ==
    getRank(bs[FindBallot(bs, ps[v])], ps[o]) - getRank(bs[FindBallot(bs, ps[o])], ps[v])

computeReciprocityImbalance(bs, ps) ==
    [id \in Range(getIds(ps)) |->
        LET v == IndexOf(getIds(ps), id) + 1
            paired == ImbalancePaired(bs, ps, v)
            totalImbalance == SumSeq([o \in 1..Len(ps) |->
                                 IF o \in paired THEN ImbalanceOf(bs, ps, v, o) ELSE 0])
            count == Cardinality(paired)
        IN  IF ImbalanceAveraged(count) THEN Frac(totalImbalance, count) ELSE Frac(0, 1)]

\* ---------------------------------------------------------------- conformity
\* groupRank: the 1-based place of every participant in ids sorted by descending
\* Borda score (the sort is stable)
groupRank(ps, bordaScores) ==
    LET ids == getIds(ps)
        Before(h, i) == \/ bordaScores[ids[h]] > bordaScores[ids[i]]
                        \/ (bordaScores[ids[h]] = bordaScores[ids[i]] /\ h < i)
    IN  [id \in Range(ids) |->
            1 + Cardinality({ h \in DOMAIN ids : Before(h, IndexOf(ids, id) + 1) })]

\* groupOrder: the ids in the order of their group rank
groupOrder(ps, bordaScores) ==
    LET rank == groupRank(ps, bordaScores)
    IN  [k \in 1..Len(ps) |-> CHOOSE id \in Range(getIds(ps)) : rank[id] = k]

\* Math.max(-1, Math.min(1, rho)) for a denominator above 0
ClampUnit(rho) ==
    IF rho.num > rho.den THEN Frac(1, 1)
    ELSE IF rho.num < 0 - rho.den THEN Frac(0 - 1, 1)
    ELSE rho

\* the conformity of one ballot: d = voterRank[id] - groupRank[id] over the
\* ranked ids that have a group rank
SpearmanOf(ballot, ps, bordaScores) ==
    LET rank == groupRank(ps, bordaScores)
        m == Len(ballot.ranking)
        counted == { k \in 1..m : ballot.ranking[k] \in DOMAIN rank }
        \* voterRank[id] is the last place of id in the ranking
        VoterRank(id) == CHOOSE k \in 1..m :
                            /\ ballot.ranking[k] = id
                            /\ \A h \in (k + 1)..m : ballot.ranking[h] # id
        Dsq(k) == IF k \in counted
                  THEN (VoterRank(ballot.ranking[k]) - rank[ballot.ranking[k]])
                       * (VoterRank(ballot.ranking[k]) - rank[ballot.ranking[k]])
                  ELSE 0
        sumDsq == SumSeq([k \in 1..m |-> Dsq(k)])
        count == Cardinality(counted)
        den == count * (count * count - 1)
    IN  IF m < 2 THEN Frac(0, 1)
        ELSE IF count > 1 THEN ClampUnit(Frac(den - 6 * sumDsq, den))
        ELSE Frac(0, 1)

\* result[ballot.voterId], written ballot by ballot
computeSpearmanConformity(bs, ps, bordaScores) ==
    [v \in { bs[k].voterId : k \in DOMAIN bs } |->
        LET last == CHOOSE k \in DOMAIN bs :
                        bs[k].voterId = v /\ \A h \in (k + 1)..Len(bs) : bs[h].voterId # v
        IN  SpearmanOf(bs[last], ps, bordaScores)]

\* ---------------------------------------------------------------- counterfactual
\* faulty variant: the entry with the lowest score is taken
topIdLowest(ps, bordaScores) == groupOrder(ps, bordaScores)[Len(ps)]

\* Object.entries(bordaScores).sort((a, b) => b[1] - a[1])[0][0]: the entries are
\* in the order of the participants and the sort is stable
topId(ps, bordaScores) == groupOrder(ps, bordaScores)[1]

\* the ballots of the others with the removed id filtered out of every ranking
reducedBallots(bs, removed) ==
    LET Kept(b) == b.voterId # removed
        Other(id) == id # removed
        kept == SelectSeq(bs, Kept)
    IN  [k \in DOMAIN kept |->
            [voterId |-> kept[k].voterId, ranking |-> SelectSeq(kept[k].ranking, Other)]]

simulateTopNodeRemoval(bs, ps, bordaScores) ==
    IF Len(ps) <= 2 THEN <<>>
    ELSE LET removed == topId(ps, bordaScores)
             Other(id) == id # removed
             reducedParticipants == SelectSeq(ps, Other)
             newScores == computeBordaScores(reducedBallots(bs, removed), reducedParticipants)
         IN  [id \in Range(reducedParticipants) |-> newScores[id] - bordaScores[id]]

\* faulty variant: only the participants are counted
NothingToAnalyseFewOnly(ps, bs) == Len(ps) < 2

\* participants.length < 2 || ballots.length === 0
NothingToAnalyse(ps, bs) == Len(ps) < 2 \/ Len(bs) = 0

useAnalytics(ps, bs) ==
    IF NothingToAnalyse(ps, bs) THEN NoAnalytics
    ELSE LET n == Len(ps)
             m == Len(bs)
             pairwiseMatrix == buildPairwiseMatrix(bs, ps)
             condorcetCycles == findCondorcetCycles(pairwiseMatrix, ps, m)
         IN  [present |-> TRUE,
              pairwiseMatrix |-> pairwiseMatrix,
              bordaScores |-> computeBordaScores(bs, ps),
              condorcetWinner |-> detectCondorcetWinner(pairwiseMatrix, ps, m),
              condorcetCycles |-> condorcetCycles,
              kendallW |-> computeKendallW(bs, ps),
              cycleDensity |-> computeCycleDensity(pairwiseMatrix, m, n),
              isTournamentAcyclic |-> Len(condorcetCycles) = 0,
              kCoreDecomposition |-> computeKCoreDecomposition(bs, ps),
              reciprocalPairs |-> computeReciprocityIndex(bs, ps).pairs,
              reciprocityIndex |-> computeReciprocityIndex(bs, ps).index,
              coalitions |-> detectCoalitions(bs, ps),
              communities |-> detectCommunities(pairwiseMatrix, ps, m)]

\* ---------------------------------------------------------------- state
\* the ResultsDashboard calls useAnalytics on every render; other pages hold no result
Rendered(pg, ps, bs) == IF pg = "results" THEN useAnalytics(ps, bs) ELSE NoAnalytics

EmptyUpload == [active |-> FALSE, names |-> <<>>, ballots |-> <<>>, index |-> 0]

Init ==
    /\ participants = <<>>
    /\ ballots = <<>>
    /\ page = "setup"
    /\ analytics = NoAnalytics
    /\ upload = EmptyUpload
    /\ distribution = Measure(<<>>)
    /\ stratification = Stratify(Frac(0, 1), Frac(0, 1), <<>>)

submittedIds == { ballots[k].voterId : k \in DOMAIN ballots }

allSubmitted == \A k \in DOMAIN participants : participants[k] \in submittedIds

\* every id the state still mentions; a new id (Date.now + Math.random) is none of them
UsedIds ==
    Range(participants) \cup submittedIds
        \cup UNION { Range(ballots[k].ranking) : k \in DOMAIN ballots }

PermSeqs(S) == { s \in [1..Cardinality(S) -> S] : NoDup(s) }

\* ---------------------------------------------------------------- AppContext
addParticipantUpTo(max, pool) ==
    /\ page = "setup"
    /\ ~upload.active
    /\ Len(participants) < max
    /\ \E id \in 1..pool :
          /\ id \notin UsedIds
          /\ \A h \in 1..(id - 1) : h \in UsedIds
          /\ participants' = Append(participants, id)
    /\ UNCHANGED <<ballots, page, analytics, upload, distribution, stratification>>

addParticipant == addParticipantUpTo(MaxParticipants, MaxIds)

removeParticipant ==
    /\ page = "setup"
    /\ ~upload.active
    /\ \E id \in Range(participants) :
          LET KeepP(p) == p # id
              KeepB(b) == b.voterId # id
          IN  /\ participants' = SelectSeq(participants, KeepP)
              /\ ballots' = SelectSeq(ballots, KeepB)
    /\ UNCHANGED <<page, analytics, upload, distribution, stratification>>

\* faulty variant: the ballot is appended without dropping the voter's earlier one
submitBallotAppended(ballot) == ballots' = Append(ballots, ballot)

submitBallot(ballot) ==
    LET Other(b) == b.voterId # ballot.voterId
    IN  ballots' = Append(SelectSeq(ballots, Other), ballot)

reset ==
    /\ page = "results"
    /\ analytics.present
    /\ ~upload.active
    /\ participants' = <<>>
    /\ ballots' = <<>>
    /\ page' = "setup"
    /\ analytics' = NoAnalytics
    /\ UNCHANGED <<upload, distribution, stratification>>

\* ---------------------------------------------------------------- pages
\* RankingPage.handleSubmit: the ballot form is shown for a participant without a
\* ballot and holds an ordering of the others
OthersOf(v) == Range(participants) \ {v}

BallotFormItems(v) == PermSeqs(OthersOf(v))

\* every voter lists the others in the order of the participant list
CommonOrder(v) ==
    LET NotV(p) == p # v IN { SelectSeq(participants, NotV) }

\* common: the voters agree on one order (the unanimous group)
handleSubmitWith(common) ==
    /\ page = "ranking"
    /\ ~upload.active
    /\ ~allSubmitted
    /\ \E v \in Range(participants) \ submittedIds :
          \E ranking \in (IF common THEN CommonOrder(v) ELSE BallotFormItems(v)) :
              submitBallot([voterId |-> v, ranking |-> ranking])
    /\ UNCHANGED <<participants, page, analytics, upload, distribution, stratification>>

handleSubmit == handleSubmitWith(FALSE)

startRanking ==
    /\ page = "setup"
    /\ ~upload.active
    /\ Len(participants) >= 2
    /\ page' = "ranking"
    /\ UNCHANGED <<participants, ballots, analytics, upload, distribution, stratification>>

\* the ranking page's back button
backToSetup ==
    /\ ~upload.active
    /\ page = "ranking"
    /\ page' = "setup"
    /\ analytics' = NoAnalytics
    /\ UNCHANGED <<participants, ballots, upload, distribution, stratification>>

computeTopology ==
    /\ page = "ranking"
    /\ ~upload.active
    /\ allSubmitted
    /\ page' = "results"
    /\ analytics' = Rendered("results", participants, ballots)
    /\ UNCHANGED <<participants, ballots, upload, distribution, stratification>>

backToRanking ==
    /\ page = "results"
    /\ ~upload.active
    /\ analytics.present
    /\ page' = "ranking"
    /\ analytics' = NoAnalytics
    /\ UNCHANGED <<participants, ballots, upload, distribution, stratification>>

\* reloading the app: getInitialStateAndPage picks the page from the saved state
InitialPage(ps, bs) ==
    IF Len(ps) < 2 THEN "setup"
    ELSE IF Len(bs) < Len(ps) THEN "ranking"
    ELSE "results"

reload ==
    /\ ~upload.active
    /\ page' = InitialPage(participants, ballots)
    /\ analytics' = Rendered(page', participants, ballots)
    /\ UNCHANGED <<participants, ballots, upload, distribution, stratification>>

\* ---------------------------------------------------------------- JSON export
\* A JSON document is kept as the value JSON.parse builds from it: an array is
\* [type |-> "array", items |-> ...], the export an object of three members.
\* A participant object carries its id and its name.
NameOf(id) == 100 + id

Participant(id) == [id |-> id, name |-> NameOf(id)]

JsonArray(items) == [type |-> "array", items |-> items]

\* faulty variant: the ranking is written by name, as the auto-save request does
BallotByName(b) ==
    [voterId |-> b.voterId, ranking |-> [k \in DOMAIN b.ranking |-> NameOf(b.ranking[k])]]

\* a ballot as JSON.stringify writes it
BallotAsStored(b) == [voterId |-> b.voterId, ranking |-> b.ranking]

\* JSON.stringify({ participants, ballots, analytics })
exportJSON(ps, bs, an) ==
    [type |-> "object",
     participants |-> JsonArray([k \in DOMAIN ps |-> Participant(ps[k])]),
     ballots |-> JsonArray([k \in DOMAIN bs |-> BallotAsStored(bs[k])]),
     analytics |-> an]

\* data of an export is an object, never an array: the second form of parseJson
\* (an array of rankings) does not apply to it and the function throws instead
parseJson(data) ==
    IF data.participants.type = "array" /\ data.ballots.type = "array"
    THEN [ok |-> TRUE,
          participants |-> data.participants.items,
          ballots |-> data.ballots.items]
    ELSE [ok |-> FALSE]

\* the results page exports the state and the file is uploaded again
reimport ==
    /\ page = "results"
    /\ analytics.present
    /\ ~upload.active
    /\ LET parsed == parseJson(exportJSON(participants, ballots, analytics))
       IN  /\ parsed.ok
           /\ participants' = [k \in DOMAIN parsed.participants |-> parsed.participants[k].id]
           /\ ballots' = parsed.ballots
    /\ page' = "results"
    /\ analytics' = Rendered("results", participants', ballots')
    /\ UNCHANGED <<upload, distribution, stratification>>

Next ==
    \/ addParticipant
    \/ removeParticipant
    \/ startRanking
    \/ handleSubmit
    \/ backToSetup
    \/ computeTopology
    \/ backToRanking
    \/ reset
    \/ reload
    \/ reimport

Spec == Init /\ [][Next]_vars

\* ---------------------------------------------------------------- CSV upload
\* getParticipantId of parseCsv: the id of a name, created when the name is new.
\* names is the participantsMap in insertion order; the id is the position.
getParticipantId(names, name) ==
    LET idx == IndexOf(names, name)
    IN  IF idx >= 0 THEN [names |-> names, id |-> idx + 1]
        ELSE [names |-> Append(names, name), id |-> Len(names) + 1]

\* the loop over the columns of one line
RECURSIVE ParseCols(_, _, _)
ParseCols(cols, names, ranking) ==
    IF cols = <<>> THEN [names |-> names, ranking |-> ranking]
    ELSE LET got == getParticipantId(names, Head(cols))
         IN  ParseCols(Tail(cols), got.names,
                 IF got.id \in Range(ranking) THEN ranking
                 ELSE Append(ranking, got.id))

\* the lines a file can hold: up to MaxNames cells, none for a blank line
CsvLines == UNION { [1..l -> 1..MaxNames] : l \in 0..MaxNames }

\* names are opaque: the next new name of a file is always the least unused one
InOrder(names) == \A k \in DOMAIN names : names[k] = k

\* parseCsv returns only with at least 2 participants and 1 ballot
Loadable(u) == Len(u.names) >= 2 /\ Len(u.ballots) > 0

\* Array.from(participantsMap.values()), a participant being its id
ParsedParticipants(u) == [k \in 1..Len(u.names) |-> k]

\* loadData replaces the whole state, so a file is opened on the fresh session
selectFile ==
    /\ ~upload.active
    /\ participants = <<>>
    /\ upload' = [EmptyUpload EXCEPT !.active = TRUE]
    /\ UNCHANGED <<participants, ballots, page, analytics, distribution, stratification>>

parseLine ==
    /\ upload.active
    /\ upload.index < MaxRows
    /\ \E cols \in CsvLines :
          LET got == ParseCols(cols, upload.names, <<>>)
          IN  /\ InOrder(got.names)
              /\ upload' = [upload EXCEPT
                    !.names = got.names,
                    !.ballots = IF Len(got.ranking) > 0
                                THEN Append(@, [voterId |-> 0 - (upload.index + 1),
                                                ranking |-> got.ranking])
                                ELSE @,
                    !.index = @ + 1]
    /\ UNCHANGED <<participants, ballots, page, analytics, distribution, stratification>>

\* parseCsv throws: the modal shows the error and the state is untouched
parseFailed ==
    /\ upload.active
    /\ ~Loadable(upload)
    /\ upload' = EmptyUpload
    /\ UNCHANGED <<participants, ballots, page, analytics, distribution, stratification>>

loadData ==
    /\ upload.active
    /\ Loadable(upload)
    /\ participants' = ParsedParticipants(upload)
    /\ ballots' = upload.ballots
    /\ page' = "results"
    /\ analytics' = Rendered("results", participants', ballots')
    /\ upload' = EmptyUpload
    /\ UNCHANGED <<distribution, stratification>>

NextUpload ==
    \/ selectFile
    \/ parseLine
    \/ parseFailed
    \/ loadData
    \/ reset

SpecUpload == Init /\ [][NextUpload]_vars

\* ---------------------------------------------------------------- JSON upload
\* parseJson hands the participants and ballots of an export-shaped document to
\* loadData as they are.  The document lists participants 1..n; its ballots are
\* read voter by voter: a voter has no ballot, or one that ranks the others
\* without duplicates, leaving out at most MaxOmitted of them.
JsonRankings(v, names) ==
    LET others == Range(names) \ {v}
    IN  UNION { PermSeqs(S) : S \in { T \in SUBSET others :
                                         Cardinality(others \ T) <= MaxOmitted } }

selectJson ==
    /\ ~upload.active
    /\ participants = <<>>
    /\ \E n \in 2..MaxJsonParticipants :
          upload' = [EmptyUpload EXCEPT !.active = TRUE, !.names = [k \in 1..n |-> k]]
    /\ UNCHANGED <<participants, ballots, page, analytics, distribution, stratification>>

readBallot ==
    /\ upload.active
    /\ upload.index < Len(upload.names)
    /\ \/ upload' = [upload EXCEPT !.index = @ + 1]
       \/ \E ranking \in JsonRankings(upload.index + 1, upload.names) :
             upload' = [upload EXCEPT
                 !.ballots = Append(@, [voterId |-> upload.index + 1, ranking |-> ranking]),
                 !.index = @ + 1]
    /\ UNCHANGED <<participants, ballots, page, analytics, distribution, stratification>>

loadJson ==
    /\ upload.active
    /\ upload.index = Len(upload.names)
    /\ participants' = ParsedParticipants(upload)
    /\ ballots' = upload.ballots
    /\ page' = "results"
    /\ analytics' = Rendered("results", participants', ballots')
    /\ upload' = EmptyUpload
    /\ UNCHANGED <<distribution, stratification>>

\* the 'Initialize Session' button shown when there is nothing to analyse
initializeSession ==
    /\ page = "results"
    /\ ~analytics.present
    /\ ~upload.active
    /\ page' = "setup"
    /\ UNCHANGED <<participants, ballots, analytics, upload, distribution, stratification>>

NextJson ==
    \/ selectJson
    \/ readBallot
    \/ loadJson
    \/ reset
    \/ initializeSession

SpecJson == Init /\ [][NextJson]_vars

\* ---------------------------------------------------------------- unanimous group
handleSubmitCommon == handleSubmitWith(TRUE)

addGroupMember == addParticipantUpTo(MaxGroup, MaxGroup)

NextUnanimous ==
    \/ addGroupMember
    \/ startRanking
    \/ handleSubmitCommon
    \/ computeTopology
    \/ backToRanking
    \/ backToSetup

SpecUnanimous == Init /\ [][NextUnanimous]_vars

\* ---------------------------------------------------------------- store
\* submitBallot called for any current participant, with or without an earlier
\* ballot, with an ordering of the others
submitForAny ==
    /\ ~upload.active
    /\ \E v \in Range(participants) :
          \E ranking \in BallotFormItems(v) :
              submitBallot([voterId |-> v, ranking |-> ranking])
    /\ UNCHANGED <<participants, page, analytics, upload, distribution, stratification>>

\* the store's operations in any order
NextStore ==
    \/ addParticipant
    \/ removeParticipant
    \/ submitForAny

SpecStore == Init /\ [][NextStore]_vars

\* ---------------------------------------------------------------- labels
\* the arguments determineStratificationLabel is given: a cycle density and a
\* Gini coefficient in tenths, and a community for one more participant
classify ==
    /\ Len(stratification.communities) < MaxMembers
    /\ \E c \in 0..MaxTenths, g \in 0..MaxTenths, l \in 0..MaxLabel :
          stratification' = Stratify(Frac(c, 10), Frac(g, 10),
                                     Append(stratification.communities, l))
    /\ UNCHANGED <<participants, ballots, page, analytics, upload, distribution>>

NextLabels == classify

SpecLabels == Init /\ [][NextLabels]_vars

\* ---------------------------------------------------------------- score arrays
\* the arrays computeGini and computeLorenzPoints are given: non-negative integers
appendValue ==
    /\ Len(distribution.values) < MaxLen
    /\ \E v \in 0..MaxValue : distribution' = Measure(Append(distribution.values, v))
    /\ UNCHANGED <<participants, ballots, page, analytics, upload, stratification>>

NextValues == appendValue

SpecValues == Init /\ [][NextValues]_vars

\* ================================================================ properties
RECURSIVE SumOver(_, _)
SumOver(f, S) ==
    IF S = {} THEN 0
    ELSE LET x == CHOOSE y \in S : TRUE IN f[x] + SumOver(f, S \ {x})

N == Len(participants)

M == Len(ballots)

\* a ballot cast by a participant that ranks each of the n-1 others exactly once
FullBallot(b) ==
    /\ b.voterId \in Range(participants)
    /\ Len(b.ranking) = N - 1
    /\ Range(b.ranking) = Range(participants) \ {b.voterId}

AllFull == \A k \in DOMAIN ballots : FullBallot(ballots[k])

OnResults == page = "results" /\ analytics.present

\* C1: when every ballot is cast by a participant and is a permutation of the n-1
\* others, the Borda scores add up to ballots.length * n(n-1)/2.
C1_BordaSum ==
    (N >= 2 /\ AllFull) =>
        SumOver(computeBordaScores(ballots, participants), Range(participants))
            = M * ((N * (N - 1)) \div 2)

C1_Witness ==
    /\ OnResults /\ N = 3 /\ M = 3 /\ AllFull
    /\ SumOver(analytics.bordaScores, Range(participants)) = 9

\* C2 as written: on a full ballot the first place earns n-1 points and the last
\* place earns 0 points (n >= 3, so that the two places differ).
C2_LastEarnsZero ==
    \A k \in DOMAIN ballots :
        (N >= 3 /\ FullBallot(ballots[k])) =>
            /\ BordaCell(ballots[k], ballots[k].ranking[1], N) = N - 1
            /\ BordaCell(ballots[k], ballots[k].ranking[N - 1], N) = 0

\* C2 amended: on a full ballot the participant at place r earns n - r points, so
\* the first place earns n-1 points and the last place earns 1 point.
C2_PointsByPlace ==
    \A k \in DOMAIN ballots :
        (N >= 2 /\ FullBallot(ballots[k])) =>
            /\ \A r \in 1..(N - 1) : BordaCell(ballots[k], ballots[k].ranking[r], N) = N - r
            /\ BordaCell(ballots[k], ballots[k].ranking[1], N) = N - 1
            /\ BordaCell(ballots[k], ballots[k].ranking[N - 1], N) = 1

C2_Witness ==
    /\ OnResults /\ N = 3 /\ AllFull
    /\ \E id \in Range(participants) : analytics.bordaScores[id] = 2 * 2
    /\ \E id \in Range(participants) : analytics.bordaScores[id] = 2 * 1

\* ballots in which both ids appear and a stands above b
Prefer(a, b) ==
    { k \in DOMAIN ballots :
        \E p, q \in DOMAIN ballots[k].ranking :
            p < q /\ ballots[k].ranking[p] = a /\ ballots[k].ranking[q] = b }

AllNoDup == \A k \in DOMAIN ballots : NoDup(ballots[k].ranking)

\* C3: matrix[i][j] is the number of ballots that hold both i and j with i above j,
\* the diagonal is 0, and matrix[i][j] + matrix[j][i] <= ballots.length.
C3_PairwiseMatrix ==
    AllNoDup =>
        LET matrix == buildPairwiseMatrix(ballots, participants)
        IN  \A i, j \in 1..N :
                /\ i = j => matrix[i][j] = 0
                /\ i # j => matrix[i][j] = Cardinality(Prefer(participants[i], participants[j]))
                /\ i # j => matrix[i][j] + matrix[j][i] <= M

\* a ballot that misses participant i while another pair of it is counted
C3_Witness ==
    /\ OnResults /\ N = 3 /\ AllNoDup
    /\ \E i, j \in 1..N :
          /\ i # j
          /\ analytics.pairwiseMatrix[i][j] >= 1
          /\ analytics.pairwiseMatrix[i][j] + analytics.pairwiseMatrix[j][i] < M
          /\ \E k \in DOMAIN ballots : participants[i] \notin Range(ballots[k].ranking)

\* C4: detectCondorcetWinner returns i's id exactly when matrix[i][j] > numBallots/2
\* for every j # i, and null exactly when no participant is such; a participant with
\* an entry equal to numBallots/2 is never returned.
C4_CondorcetWinner ==
    N >= 2 =>
        LET matrix == buildPairwiseMatrix(ballots, participants)
            winner == detectCondorcetWinner(matrix, participants, M)
            Wins(i) == \A j \in 1..N : j # i => 2 * matrix[i][j] > M
        IN  /\ \A i \in 1..N : (winner = participants[i]) <=> Wins(i)
            /\ (winner = Null) <=> ~\E i \in 1..N : Wins(i)
            /\ \A i, j \in 1..N :
                  (i # j /\ 2 * matrix[i][j] = M) => winner # participants[i]

\* a winner is reported while another pair is tied
C4_Witness ==
    /\ OnResults /\ N = 3
    /\ analytics.condorcetWinner # Null
    /\ \E i, j \in 1..N : i # j /\ 2 * analytics.pairwiseMatrix[i][j] = M

\* the data model's invariant: no duplicates, and never the voter itself
DataModelOk ==
    \A k \in DOMAIN ballots :
        /\ NoDup(ballots[k].ranking)
        /\ ballots[k].voterId \notin Range(ballots[k].ranking)

\* C5: the participant detectCondorcetWinner returns is in no triple that
\* findCondorcetCycles returns.
C5_WinnerInNoCycle ==
    DataModelOk =>
        LET matrix == buildPairwiseMatrix(ballots, participants)
            winner == detectCondorcetWinner(matrix, participants, M)
            cycles == findCondorcetCycles(matrix, participants, M)
        IN  \A k \in DOMAIN cycles : winner \notin Range(cycles[k])

C5_Witness ==
    /\ OnResults /\ DataModelOk
    /\ Len(analytics.condorcetCycles) > 0
    /\ analytics.condorcetWinner = Null

\* the rock-paper-scissors group: A, B, C with ballots A:[B,C], B:[C,A], C:[A,B]
RockPaperScissors ==
    /\ N = 3 /\ M = 3
    /\ LET A == participants[1]
           B == participants[2]
           C == participants[3]
       IN  { ballots[k] : k \in DOMAIN ballots } =
               { [voterId |-> A, ranking |-> <<B, C>>],
                 [voterId |-> B, ranking |-> <<C, A>>],
                 [voterId |-> C, ranking |-> <<A, B>>] }

\* the rotations of the cycle a -> b -> c -> a
Rotations(a, b, c) == { <<a, b, c>>, <<b, c, a>>, <<c, a, b>> }

\* C6: for the rock-paper-scissors group findCondorcetCycles returns exactly one
\* 3-cycle (A -> B -> C -> A, in whichever rotations it is listed), and the composed
\* result has isTournamentAcyclic = false.
C6_RockPaperScissorsCycle ==
    (OnResults /\ RockPaperScissors) =>
        /\ Len(analytics.condorcetCycles) >= 1
        /\ Range(analytics.condorcetCycles)
               \subseteq Rotations(participants[1], participants[2], participants[3])
        /\ analytics.isTournamentAcyclic = FALSE

\* C7: for the rock-paper-scissors group computeCycleDensity returns 1.
C7_RockPaperScissorsDensity ==
    (OnResults /\ RockPaperScissors) => FracEq(analytics.cycleDensity, Frac(1, 1))

\* every participant has voted and every ballot lists the others in the order of
\* the participant list
Unanimous ==
    /\ N >= 2 /\ M = N
    /\ \A i \in 1..N : \E k \in DOMAIN ballots :
          LET NotI(p) == p # participants[i]
          IN  ballots[k] = [voterId |-> participants[i],
                            ranking |-> SelectSeq(participants, NotI)]

\* C8: for 4 participants whose ballots all follow the order P1, P2, P3, P4 the
\* composed analytics report condorcetWinner = P1.
C8_UnanimousWinner ==
    (OnResults /\ N = 4 /\ Unanimous) => analytics.condorcetWinner = participants[1]

\* every ballot holds the same permutation of all n participant ids
SamePermutation(ps, bs) ==
    /\ Len(bs) >= 1
    /\ Len(bs[1].ranking) = Len(ps)
    /\ Range(bs[1].ranking) = Range(ps)
    /\ \A k \in DOMAIN bs : bs[k].ranking = bs[1].ranking

KendallOneOrZero(ps, bs) ==
    /\ (Len(ps) >= 2 /\ Len(bs) >= 2 /\ SamePermutation(ps, bs)) =>
          /\ computeKendallW(bs, ps) = Frac(1, 1)
          /\ KendallNumerator(bs, ps) = KendallDenominator(bs, ps)
    /\ (Len(bs) < 2 \/ Len(ps) < 2) => computeKendallW(bs, ps) = Frac(0, 1)

\* C9: with n >= 2 and m >= 2 ballots that all hold the same permutation of all n ids
\* computeKendallW returns exactly 1 (12 S = m^2 (n^3 - n)); with m < 2 or n < 2 it
\* returns 0.  Stated of the loaded data and of the file being parsed.
C9_KendallIdentical ==
    /\ KendallOneOrZero(participants, ballots)
    /\ KendallOneOrZero(ParsedParticipants(upload), upload.ballots)

C9_Witness ==
    /\ OnResults /\ N = 3 /\ M = 3
    /\ SamePermutation(participants, ballots)
    /\ analytics.kendallW = Frac(1, 1)

\* C10: for every n >= 2, when each participant casts one ballot and every ballot
\* lists the other n-1 in one common order, computeKendallW returns exactly 1.
C10_UnanimousKendall ==
    (OnResults /\ Unanimous) => analytics.kendallW = Frac(1, 1)

\* ---------------------------------------------------------------- C11
Values == distribution.values

Gini == distribution.giniCoefficient

IsConstant(s) == \A p, q \in DOMAIN s : s[p] = s[q]

OnePositive(s) ==
    \E p \in DOMAIN s : s[p] > 0 /\ \A q \in DOMAIN s : q # p => s[q] = 0

\* C11: computeGini is 0 for the empty array, for an all-zero array and for every
\* constant array, and is exactly (n - 1) / n for an array of length n whose
\* entries are 0 except one positive entry
C11_GiniExtremes ==
    /\ Values = <<>> => Gini = Frac(0, 1)
    /\ IsConstant(Values) => FracEq(Gini, Frac(0, 1))
    /\ OnePositive(Values) => FracEq(Gini, Frac(Len(Values) - 1, Len(Values)))

C11_Witness ==
    /\ Values = <<0, MaxValue, 0>>
    /\ Gini = Frac(2 * MaxValue, 3 * MaxValue)

\* ---------------------------------------------------------------- C12
\* the array with each entry multiplied by k
Scaled(s, k) == [i \in DOMAIN s |-> k * s[i]]

\* C12: for an array of non-negative integers and a positive integer factor k,
\* computeGini of the array with each entry multiplied by k equals computeGini
\* of the array
C12_GiniScaleInvariant ==
    \A k \in 1..MaxFactor : FracEq(computeGini(Scaled(Values, k)), Gini)

C12_Witness ==
    /\ Values = <<1, 0, 2>>
    /\ Gini.num > 0
    /\ computeGini(Scaled(Values, MaxFactor)) # Gini
    /\ FracEq(computeGini(Scaled(Values, MaxFactor)), Gini)

\* ---------------------------------------------------------------- C13
\* C13: useAnalytics returns null whenever there are fewer than 2 participants or
\* no ballot, and a result otherwise
C13_NullIffTooFew ==
    /\ useAnalytics(participants, ballots).present <=> (N >= 2 /\ M >= 1)
    /\ page = "results" => analytics = useAnalytics(participants, ballots)

C13_Witness ==
    /\ N = 1
    /\ M = 1
    /\ useAnalytics(participants, ballots) = NoAnalytics

\* ---------------------------------------------------------------- C14
Lorenz == distribution.lorenzPoints

\* C14: for a non-empty array of length n, computeLorenzPoints returns the pairs at
\* the population fractions 0, 1/n, ..., 1, from (0,0) to (1,1); when the total
\* is 0 every point of those has x = y
C14_LorenzPoints ==
    LET n == Len(Values)
    IN  n > 0 =>
          /\ Len(Lorenz) = n + 1
          /\ \A k \in DOMAIN Lorenz : FracEq(Lorenz[k][1], Frac(k - 1, n))
          /\ FracEq(Lorenz[1][2], Frac(0, 1))
          /\ FracEq(Lorenz[Len(Lorenz)][2], Frac(1, 1))
          /\ SumSeq(Values) = 0 =>
                \A k \in DOMAIN Lorenz : FracEq(Lorenz[k][1], Lorenz[k][2])

\* ---------------------------------------------------------------- C15
\* C15: after any sequence of addParticipant, removeParticipant and submitBallot
\* of the collection workflow, every id in the ranking of every stored ballot is
\* the id of a current participant
C15_RankingsKnown ==
    \A k \in DOMAIN ballots : Range(ballots[k].ranking) \subseteq Range(participants)

\* ---------------------------------------------------------------- C16
\* C16: whenever the ranking page's 'Compute Topology' leads to the results page,
\* every stored ballot ranks exactly the n-1 current participants other than its
\* voter, each once
C16_CompleteAtCompute == [][computeTopology => AllFull]_vars

\* ---------------------------------------------------------------- C17
Reimported == parseJson(exportJSON(participants, ballots, useAnalytics(participants, ballots)))

Linked(i) == KCoreAdj(ballots, participants)[i]

\* the largest k such that i lies in a set of nodes each linked to at least k of the set
CoreNumber(i) ==
    LET Holds(k) == \E S \in SUBSET (1..N) :
                       /\ i \in S
                       /\ \A u \in S : Cardinality(Linked(u) \cap S) >= k
    IN  CHOOSE k \in 0..N : Holds(k) /\ ~Holds(k + 1)

\* C19: computeKCoreDecomposition gives every participant its core number in the
\* undirected top-third graph
C19_CoreNumbers ==
    \A i \in 1..N :
        computeKCoreDecomposition(ballots, participants)[participants[i]] = CoreNumber(i)

C19_Witness ==
    /\ OnResults
    /\ N = 3
    /\ \E i, j \in 1..N :
          /\ analytics.kCoreDecomposition[participants[i]] = 0
          /\ analytics.kCoreDecomposition[participants[j]] = 1
          /\ CoreNumber(i) = 0
          /\ CoreNumber(j) = 1

\* ---------------------------------------------------------------- C20
\* the pair {a, b} is one of computeReciprocityIndex's mutual pairs
Reciprocal(a, b) ==
    LET pairs == computeReciprocityIndex(ballots, participants).pairs
    IN  <<a, b>> \in Range(pairs) \/ <<b, a>> \in Range(pairs)

\* C20: every coalition detectCoalitions returns has at least 2 members, and any
\* two of its members are a reciprocal top-third pair as computeReciprocityIndex
\* defines it, also when ballots omit ids
C20_CoalitionsAreCliques ==
    LET coalitions == detectCoalitions(ballots, participants)
    IN  \A k \in DOMAIN coalitions :
          /\ Len(coalitions[k]) >= 2
          /\ \A p, q \in DOMAIN coalitions[k] :
                p # q => Reciprocal(coalitions[k][p], coalitions[k][q])

\* ---------------------------------------------------------------- C18
\* C18: with at least 2 participants and 1 ballot, ballots that omit ids included,
\* no metric function composed by useAnalytics divides by zero: every
\* denominator is non-zero or the division is replaced by a default
C18_NoZeroDenominator ==
    (N >= 2 /\ M >= 1) => \A den \in Divisors(participants, ballots) : den # 0

C18_Witness ==
    LET matrix == analytics.pairwiseMatrix
    IN  /\ OnResults
        /\ N = MaxJsonParticipants
        /\ M = N - 1
        /\ \E k \in DOMAIN ballots : Len(ballots[k].ranking) = N - 2
        /\ \E v \in 1..N : ImbalanceCount(ballots, participants, v) = 0
        /\ SubgroupCohesionDivisors(detectCommunities(matrix, participants, M),
                                    ballots, participants) # {}
        /\ \E i \in 1..N :
               ~FracEq(computeBetweennessCentrality(matrix, participants, M)[i],
                       Frac(0, 1))
        /\ 0 \notin Divisors(participants, ballots)

\* ---------------------------------------------------------------- C21
Labels == { analytics.communities[id] : id \in DOMAIN analytics.communities }

LabelAt(k) == analytics.communities[participants[k]]

\* C21: detectCommunities leaves its loop after at most 20 passes; the labels
\* used are exactly 0..k-1 for the k communities, the first participant has
\* label 0 and every other label is at most one more than the largest before it
C21_CommunityLabels ==
    analytics.present =>
        /\ CommunityIterations(analytics.pairwiseMatrix, participants, M) <= 20
        /\ Labels = 0..(Cardinality(Labels) - 1)
        /\ LabelAt(1) = 0
        /\ \A k \in 2..N : \E h \in 1..(k - 1) : LabelAt(k) <= LabelAt(h) + 1

\* four participants in two communities, reached in more than one pass
C21_Witness ==
    /\ analytics.present
    /\ N = MaxJsonParticipants
    /\ Cardinality(Labels) = 2
    /\ LabelAt(1) = 0
    /\ LabelAt(N) = 1
    /\ CommunityIterations(analytics.pairwiseMatrix, participants, M) >= 2

\* ---------------------------------------------------------------- C22
\* spearmanConformity as useAnalytics computes it from the ballots shown
SpearmanConformity ==
    computeSpearmanConformity(ballots, participants, analytics.bordaScores)

\* the other participants in the order of the descending-Borda reference ranking
ReferenceOrderFor(v) ==
    LET Other(id) == id # v
    IN  SelectSeq(groupOrder(participants, analytics.bordaScores), Other)

\* C22: a voter whose ballot lists the other participants, at least 2 of them,
\* in exactly the order of the descending-Borda reference ranking has conformity 1
C22_ConformityOne ==
    analytics.present =>
        \A k \in DOMAIN ballots :
            (/\ Len(ballots[k].ranking) >= 2
             /\ ballots[k].ranking = ReferenceOrderFor(ballots[k].voterId))
            => FracEq(SpearmanConformity[ballots[k].voterId], Frac(1, 1))

\* ---------------------------------------------------------------- C23
\* reciprocityImbalance as useAnalytics computes it from the ballots shown
ReciprocityImbalance == computeReciprocityImbalance(ballots, participants)

\* the rank the participant at position v gives to the one at position o
RankGiven(v, o) == getRank(ballots[FindBallot(ballots, participants[v])], participants[o])

\* the other voters the participant at position v exchanged ranks with
Exchanged(v) == ImbalancePaired(ballots, participants, v)

\* places every other voter nearer the top than they place the participant
GivesBetter(v) ==
    Exchanged(v) # {} /\ \A o \in Exchanged(v) : RankGiven(v, o) < RankGiven(o, v)

\* is placed nearer the top by every other voter than the participant places them
ReceivesBetter(v) ==
    Exchanged(v) # {} /\ \A o \in Exchanged(v) : RankGiven(o, v) < RankGiven(v, o)

\* C23: a participant who gives every other voter a better rank than received
\* has a positive reciprocity imbalance, one who receives better ranks than
\* given from every other voter has a negative one
C23_SignConvention ==
    analytics.present =>
        \A v \in 1..N :
            /\ GivesBetter(v) => ReciprocityImbalance[participants[v]].num > 0
            /\ ReceivesBetter(v) => ReciprocityImbalance[participants[v]].num < 0

\* ---------------------------------------------------------------- C24
\* mutualInformation as useAnalytics computes it from the ballots shown
MutualInformation == computeMutualInformationMatrix(ballots, participants)

\* the targets that both ballots rank: neither omits them, neither is their voter
CoRanked(a, b) ==
    { j \in 1..N : /\ getRank(ballots[a], participants[j]) > 0
                   /\ getRank(ballots[b], participants[j]) > 0
                   /\ participants[j] # ballots[a].voterId
                   /\ participants[j] # ballots[b].voterId }

\* C24: for every pair of distinct ballots the joint histogram, both marginal
\* histograms and the sample count include exactly the targets both ballots rank
C24_CoRankedOnly ==
    analytics.present =>
        \A a, b \in DOMAIN ballots :
            a < b => MutualInformation[a][b]
                        = MutualInformationHistograms(ballots[a], ballots[b], participants,
                                                      CoRanked(a, b))

\* ---------------------------------------------------------------- C25
\* inDegreeCentrality as useAnalytics computes it from the ballots shown
InDegreeCentrality ==
    computeInDegreeCentrality(buildWeightMatrix(ballots, participants), participants)

\* the column sum of the weight matrix for the participant at position j
ColumnSum(j) ==
    SumSeq([i \in 1..N |-> buildWeightMatrix(ballots, participants)[i][j]])

IsLargestColumn(j) == \A h \in 1..N : ColumnSum(h) <= ColumnSum(j)

\* C25: every in-degree centrality lies in [0,1] and, with at least one ballot,
\* the participant with the largest column sum scores exactly 1
C25_InDegreeNormalised ==
    analytics.present =>
        /\ \A j \in 1..N :
              /\ InDegreeCentrality[j].num >= 0
              /\ InDegreeCentrality[j].num <= InDegreeCentrality[j].den
        /\ M >= 1 =>
              \A j \in 1..N :
                  IsLargestColumn(j) => FracEq(InDegreeCentrality[j], Frac(1, 1))

\* ---------------------------------------------------------------- C26
LowCycles == stratification.cycleDensity.num * 10 < stratification.cycleDensity.den

HighCycles == stratification.cycleDensity.num * 10 > 3 * stratification.cycleDensity.den

Unequal == stratification.gini.num * 10 > 3 * stratification.gini.den

NumCommunities ==
    Cardinality({ stratification.communities[k] : k \in DOMAIN stratification.communities })

FewCommunities ==
    NumCommunities > 1 /\ 2 * NumCommunities <= Len(stratification.communities)

ManyCommunities == 2 * NumCommunities > Len(stratification.communities)

\* C26: the rules are tried in a fixed order and the first that matches gives
\* the label: Linear Hierarchy, then Tiered Clusters, then Fragmented, else
\* Mixed Structure
C26_LabelPriority ==
    /\ (LowCycles /\ Unequal) => stratification.stratificationLabel = "Linear Hierarchy"
    /\ (~(LowCycles /\ Unequal) /\ FewCommunities)
          => stratification.stratificationLabel = "Tiered Clusters"
    /\ (~(LowCycles /\ Unequal) /\ ~FewCommunities /\ (HighCycles \/ ManyCommunities))
          => stratification.stratificationLabel = "Fragmented"
    /\ (~(LowCycles /\ Unequal) /\ ~FewCommunities /\ ~HighCycles /\ ~ManyCommunities)
          => stratification.stratificationLabel = "Mixed Structure"

\* a cycle density above 0.3 with two communities of two: the community rule wins
C26_Witness ==
    /\ HighCycles
    /\ FewCommunities
    /\ stratification.stratificationLabel = "Tiered Clusters"

\* ---------------------------------------------------------------- C27
\* every participant has cast exactly one ballot
OneBallotEach ==
    \A p \in Range(participants) :
        Cardinality({ k \in DOMAIN ballots : ballots[k].voterId = p }) = 1

TopNodeRemovalBordaShift ==
    simulateTopNodeRemoval(ballots, participants, analytics.bordaScores)

\* every ballot ranks, without duplicates, only participants other than its voter
WellFormedBallots ==
    \A k \in DOMAIN ballots :
        /\ NoDup(ballots[k].ranking)
        /\ Range(ballots[k].ranking) \subseteq Range(participants) \ {ballots[k].voterId}

HighestBorda(top) ==
    \A p \in Range(participants) : analytics.bordaScores[p] <= analytics.bordaScores[top]

TotalTriads == (N * (N - 1) * (N - 2)) \div 6

\* C29: findCondorcetCycles lists every majority 3-cycle once per rotation, so
\* its length is 3 times the number of triples computeCycleDensity counts:
\* 3 * cycleDensity * n(n-1)(n-2)/6
C29_ThreeRotations ==
    OnResults =>
        FracEq(Frac(Len(analytics.condorcetCycles), 1),
               FracMul(Frac(3 * TotalTriads, 1), analytics.cycleDensity))

\* the one triple of three participants is cyclic and listed three times
C29_Witness ==
    /\ OnResults
    /\ N = 3
    /\ Len(analytics.condorcetCycles) = 3
    /\ FracEq(analytics.cycleDensity, Frac(1, 1))

\* ---------------------------------------------------------------- C30
\* C30: after any sequence of addParticipant, removeParticipant and submitBallot
\* the ballots hold at most one ballot per voter and every voter is a current
\* participant
C30_OneBallotPerParticipant ==
    /\ \A k, h \in DOMAIN ballots : k # h => ballots[k].voterId # ballots[h].voterId
    /\ \A k \in DOMAIN ballots : ballots[k].voterId \in Range(participants)

\* every participant has a ballot, the last ballot is not the last participant's,
\* and a ranking still names a participant removed since
C30_Witness ==
    /\ N >= 2
    /\ M = N
    /\ ballots[M].voterId # participants[N]
    /\ \E k \in DOMAIN ballots : ~(Range(ballots[k].ranking) \subseteq Range(participants))

====
